---- MODULE Spec2Model ----
(***************************************************************************)
(* Model of iggyenrich.LocalIggyDataPackage: the boundary store kept by    *)
(* load / _load_bounds_features, and the two enrichment paths              *)
(* (_enrich_points with _resolve_duplicates, and _enrich_boundary).        *)
(*                                                                         *)
(* Python strings are sequences of chunks (words and "_"), so that string  *)
(* concatenation is \o and str.endswith is a suffix test.  Column values   *)
(* are tagged tuples <<type, payload>>.  A DataFrame is a record of its    *)
(* index name, index labels, column names and rows (one tuple per row,     *)
(* aligned with the columns).  An Optional is a sequence of length <= 1.   *)
(***************************************************************************)
EXTENDS Integers, Sequences, FiniteSets, TLC

VARIABLES
    crosswalk_data,   \* Optional DataFrame (<<>> is None)
    boundary_data,    \* dict: boundary name -> DataFrame
    bounds_features,  \* insertion-ordered dict: sequence of <<boundary, features>>
    call              \* the call whose result the caller holds: arguments, outcome, result

vars == <<crosswalk_data, boundary_data, bounds_features, call>>

\* Bound of the model: the rows of a caller's table
MaxPoints == 2

(***************************************************************************)
(* Strings                                                                 *)
(***************************************************************************)
Underscore == <<"_">>

EndsWith(s, suffix) ==
    /\ Len(s) >= Len(suffix)
    /\ SubSeq(s, Len(s) - Len(suffix) + 1, Len(s)) = suffix

Contains(s, chunk) == \E i \in 1..Len(s) : s[i] = chunk

\* f"{x}_{boundary}"
Suffixed(x, boundary) == x \o Underscore \o boundary

\* f"id_{boundary}"
IdCol(boundary) == <<"id", "_">> \o boundary

\* f"{bnd}_id"
BndIdCol(bnd) == bnd \o <<"_", "id">>

qk_isochrone_walk_10m == <<"qk", "_", "isochrone", "_", "walk", "_", "10m">>
cbg == <<"cbg">>
census_tract == <<"census", "_", "tract">>
county == <<"county">>
locality == <<"locality">>
metro == <<"metro">>
zipcode == <<"zipcode">>
parcel == <<"parcel">>

KNOWN_BOUNDARIES ==
    <<qk_isochrone_walk_10m, cbg, census_tract, county, locality, metro, zipcode>>

InList(x, list) == \E i \in 1..Len(list) : list[i] = x

Range(list) == {list[i] : i \in 1..Len(list)}

(***************************************************************************)
(* Column values                                                           *)
(***************************************************************************)
NaN == <<"nan">>
S(x) == <<"str", x>>
I(n) == <<"int", n>>
B(b) == <<"bool", b>>
F(n) == <<"float", n>>

IsNaN(v) == v = NaN

(***************************************************************************)
(* Insertion-ordered dicts                                                 *)
(***************************************************************************)
DictKeys(d) == [i \in 1..Len(d) |-> d[i][1]]

DictHas(d, k) == \E i \in 1..Len(d) : d[i][1] = k

DictGet(d, k) == d[CHOOSE i \in 1..Len(d) : d[i][1] = k][2]

\* d[k] = v: an existing key keeps its position, a new key goes last
DictSet(d, k, v) ==
    IF DictHas(d, k)
    THEN [i \in 1..Len(d) |-> IF d[i][1] = k THEN <<k, v>> ELSE d[i]]
    ELSE Append(d, <<k, v>>)

(***************************************************************************)
(* DataFrames                                                              *)
(***************************************************************************)
RangeIndex(n) == [i \in 1..n |-> I(i - 1)]

\* geo tells a gpd.GeoDataFrame from a pd.DataFrame
DataFrame(index_name, index, columns, rows) ==
    [geo |-> FALSE, index_name |-> index_name, index |-> index,
     columns |-> columns, rows |-> rows]

GeoDataFrame(index_name, index, columns, rows) ==
    [geo |-> TRUE, index_name |-> index_name, index |-> index,
     columns |-> columns, rows |-> rows]

NRows(df) == Len(df.rows)

HasCol(df, c) == InList(c, df.columns)

\* position of the (first) column named c
ColPos(df, c) == CHOOSE i \in 1..Len(df.columns) :
    /\ df.columns[i] = c
    /\ \A j \in 1..(i - 1) : df.columns[j] # c

Cell(df, r, c) == df.rows[r][ColPos(df, c)]

\* The columns at the given positions, in that order
ColsAt(df, pos) ==
    [df EXCEPT !.columns = [k \in 1..Len(pos) |-> df.columns[pos[k]]],
               !.rows = [r \in 1..Len(df.rows) |->
                            [k \in 1..Len(pos) |-> df.rows[r][pos[k]]]]]

\* The rows at the given positions, in that order, with their index labels
RowsAt(df, order) ==
    [df EXCEPT !.index = [p \in 1..Len(order) |-> df.index[order[p]]],
               !.rows = [p \in 1..Len(order) |-> df.rows[order[p]]]]

ValuesAt(df, pos) == [r \in 1..Len(df.rows) |-> df.rows[r][pos]]

ColValues(df, c) == ValuesAt(df, ColPos(df, c))

\* df[cols]: the named columns in the given order (a name listed twice is taken twice)
SelectCols(df, cols) == ColsAt(df, [k \in 1..Len(cols) |-> ColPos(df, cols[k])])

\* df.drop(cols, axis=1): every column with one of the names goes
DropCols(df, cols) ==
    ColsAt(df, SelectSeq([i \in 1..Len(df.columns) |-> i],
                         LAMBDA i : ~InList(df.columns[i], cols)))

DropCol(df, c) == DropCols(df, <<c>>)

\* df.columns = df.columns.map(lambda x: str(x) + f"_{boundary}")
SuffixCols(df, boundary) ==
    [df EXCEPT !.columns = [i \in 1..Len(df.columns) |-> df.columns[i] \o <<"_">> \o boundary]]

\* df[c] = values (a new column goes last)
AddCol(df, c, values) ==
    [df EXCEPT !.columns = Append(df.columns, c),
               !.rows = [r \in 1..Len(df.rows) |-> Append(df.rows[r], values[r])]]

\* df.reset_index(): the index becomes the first column, under the index's name
reset_index(df) ==
    [df EXCEPT !.index_name = <<>>,
               !.index = RangeIndex(Len(df.rows)),
               !.columns = <<df.index_name>> \o df.columns,
               !.rows = [r \in 1..Len(df.rows) |-> <<df.index[r]>> \o df.rows[r]]]

\* df.set_index(c): column c becomes the index
set_index(df, c) ==
    [DropCol(df, c) EXCEPT !.index_name = c, !.index = ColValues(df, c)]

NaNs(n) == [i \in 1..n |-> NaN]

\* The row pairs of a left join: for each left row in order, every right row with
\* an equal key, in the right table's order, or <<i, 0>> when there is none
PairsOf(i, js) ==
    IF js = <<>> THEN << <<i, 0>> >> ELSE [k \in 1..Len(js) |-> <<i, js[k]>>]

RECURSIVE MatchPairs(_, _, _)
MatchPairs(i, left_keys, right_keys) ==
    IF i > Len(left_keys) THEN <<>>
    ELSE PairsOf(i, SelectSeq([j \in 1..Len(right_keys) |-> j],
                              LAMBDA j : right_keys[j] = left_keys[i]))
         \o MatchPairs(i + 1, left_keys, right_keys)

JoinedRows(left, right, pairs) ==
    [k \in 1..Len(pairs) |->
        left.rows[pairs[k][1]] \o
        (IF pairs[k][2] = 0 THEN NaNs(Len(right.columns)) ELSE right.rows[pairs[k][2]])]

\* left.join(right, how="left", on=c): right is matched on its index; the rows
\* keep the left table's index labels
JoinPairs(left, right, pairs) ==
    [left EXCEPT !.index = [k \in 1..Len(pairs) |-> left.index[pairs[k][1]]],
                 !.columns = left.columns \o right.columns,
                 !.rows = JoinedRows(left, right, pairs)]

join(left, right, c) ==
    JoinPairs(left, right, MatchPairs(1, ColValues(left, c), right.index))

\* left.merge(right, how="left", left_on=l, right_on=r): the result has a fresh
\* RangeIndex and both key columns
MergePairs(left, right, pairs) ==
    [left EXCEPT !.index_name = <<>>,
                 !.index = RangeIndex(Len(pairs)),
                 !.columns = left.columns \o right.columns,
                 !.rows = JoinedRows(left, right, pairs)]

merge(left, right, left_on, right_on) ==
    MergePairs(left, right,
               MatchPairs(1, ColValues(left, left_on), ColValues(right, right_on)))

\* df[c] = df[c].astype(float)
ToFloat(v) ==
    IF v[1] = "bool" THEN F(IF v[2] THEN 1 ELSE 0)
    ELSE IF v[1] = "int" THEN F(v[2])
    ELSE v

\* str(n) for the one-digit numbers of the model
Digits == <<"0", "1", "2", "3", "4", "5", "6", "7", "8", "9">>

\* df[c] = df[c].astype(str)
ToStr(v) ==
    IF v[1] = "int" THEN S(Digits[v[2] + 1])
    ELSE IF v[1] = "nan" THEN S("nan")
    ELSE v

\* df[c] = df[c].astype(str)
AsStr(df, c) ==
    [df EXCEPT !.rows = [r \in 1..Len(df.rows) |->
        [k \in 1..Len(df.columns) |->
            IF df.columns[k] = c THEN ToStr(df.rows[r][k]) ELSE df.rows[r][k]]]]

\* for c in [c for c in df.columns if "intersects" in c]: df[c] = df[c].astype(float)
FloatCols(df, bool_cols) ==
    [df EXCEPT !.rows = [r \in 1..Len(df.rows) |->
        [k \in 1..Len(df.columns) |->
            IF bool_cols[k] THEN ToFloat(df.rows[r][k]) ELSE df.rows[r][k]]]]

FloatIntersects(df) ==
    FloatCols(df, [k \in 1..Len(df.columns) |-> Contains(df.columns[k], "intersects")])


(***************************************************************************)
(* The dataset on disk (what pd.read_parquet returns)                      *)
(***************************************************************************)
coast_intersects == <<"coast", "_", "intersects">>

\* One file per boundary type.  The cbg file has a geometry and a boolean
\* "intersects" column; the county file lists id "1" twice.
BoundaryFile(boundary) ==
    IF boundary = cbg
    THEN DataFrame(<<>>, RangeIndex(2),
            << <<"id">>, <<"name">>, <<"geometry">>, <<"population">>, coast_intersects >>,
            << <<S("1"), S("n1"), S("g1"), I(10), B(TRUE)>>,
               <<S("2"), S("n2"), S("g2"), I(20), B(FALSE)>> >>)
    ELSE IF boundary = county
    THEN DataFrame(<<>>, RangeIndex(3),
            << <<"id">>, <<"name">>, <<"population">> >>,
            << <<S("1"), S("n1"), I(100)>>,
               <<S("1"), S("n1b"), I(101)>>,
               <<S("2"), S("n2"), I(200)>> >>)
    ELSE DataFrame(<<>>, RangeIndex(1),
            << <<"id">>, <<"name">>, <<"population">> >>,
            << <<S("1"), S("n1"), I(7)>> >>)

area_sqkm == <<"area", "_", "sqkm">>

\* The crosswalk's columns: for every boundary type its id, area and population
CrosswalkColumns ==
    <<<<"id">>>> \o
    [k \in 1..(3 * Len(KNOWN_BOUNDARIES)) |->
        LET b == KNOWN_BOUNDARIES[((k - 1) \div 3) + 1]
        IN  CASE (k - 1) % 3 = 0 -> BndIdCol(b)
              [] (k - 1) % 3 = 1 -> Suffixed(b, area_sqkm)
              [] OTHER           -> Suffixed(b, <<"population">>)]

\* One crosswalk row: a quadkey with the cbg and the county it falls in; every
\* other boundary type has the single region "1"
CrosswalkRow(qk, cbg_id, cbg_area, cbg_pop, county_id, county_area, county_pop) ==
    <<S(qk)>> \o
    [k \in 1..(3 * Len(KNOWN_BOUNDARIES)) |->
        LET b == KNOWN_BOUNDARIES[((k - 1) \div 3) + 1]
            id == IF b = cbg THEN cbg_id ELSE IF b = county THEN county_id ELSE "1"
            area == IF b = cbg THEN cbg_area ELSE IF b = county THEN county_area ELSE 1
            pop == IF b = cbg THEN cbg_pop ELSE IF b = county THEN county_pop ELSE 1
        IN  CASE (k - 1) % 3 = 0 -> S(id)
              [] (k - 1) % 3 = 1 -> I(area)
              [] OTHER           -> I(pop)]

\* The crosswalk file.  Quadkey "0" is outside coverage, "1" lies in one cbg, "2"
\* lies in two overlapping cbgs (10 and 5 sqkm, populations 10 and 20), "3" lies in
\* one cbg and two overlapping counties (3 and 7 sqkm).
CrosswalkFile ==
    DataFrame(<<>>, RangeIndex(5), CrosswalkColumns,
        << CrosswalkRow("1", "2", 4, 40, "2", 9, 90),
           CrosswalkRow("2", "1", 10, 10, "2", 9, 90),
           CrosswalkRow("2", "2", 5, 20, "2", 9, 90),
           CrosswalkRow("3", "1", 5, 5, "2", 3, 70),
           CrosswalkRow("3", "1", 5, 5, "1", 7, 30) >>)

(***************************************************************************)
(* infer_bounds                                                            *)
(***************************************************************************)
\* {b: [] for b in boundaries if b in KNOWN_BOUNDARIES}
RECURSIVE KnownOf(_, _)
KnownOf(boundaries, d) ==
    IF boundaries = <<>> THEN d
    ELSE KnownOf(Tail(boundaries),
                 IF InList(Head(boundaries), KNOWN_BOUNDARIES)
                 THEN DictSet(d, Head(boundaries), <<>>)
                 ELSE d)

\* for kb in KNOWN_BOUNDARIES: the features ending in kb, when there are any
RECURSIVE FeaturesOf(_, _, _)
FeaturesOf(kbs, features, d) ==
    IF kbs = <<>> THEN d
    ELSE LET kb == Head(kbs)
             kb_features == SelectSeq(features, LAMBDA f : EndsWith(f, kb))
         IN  FeaturesOf(Tail(kbs), features,
                        IF kb_features # <<>> THEN DictSet(d, kb, kb_features) ELSE d)

AllKnown == [i \in 1..Len(KNOWN_BOUNDARIES) |-> <<KNOWN_BOUNDARIES[i], <<>>>>]

infer_bounds(boundaries, features) ==
    LET requested == IF boundaries # <<>> THEN KnownOf(boundaries, <<>>) ELSE <<>>
        selected == IF features # <<>>
                    THEN FeaturesOf(KNOWN_BOUNDARIES, features, requested)
                    ELSE requested
    IN  IF selected = <<>> THEN AllKnown ELSE selected

(***************************************************************************)
(* _load_bounds_features                                                   *)
(***************************************************************************)
\* [f for f in boundary_features if f != f"id_{boundary}"] + [f"id_{boundary}"]
KeepFeatures(boundary, boundary_features) ==
    Append(SelectSeq(boundary_features, LAMBDA f : f # IdCol(boundary)), IdCol(boundary))

\* The table stored for a boundary: the file's columns renamed, then the selection
FetchedTable(boundary, boundary_features) ==
    LET df == SuffixCols(BoundaryFile(boundary), boundary)
    IN  IF boundary_features # <<>>
        THEN SelectCols(df, KeepFeatures(boundary, boundary_features))
        ELSE df

\* df[keepfeatures] raises KeyError when a name is no column of the file
FetchKeyError(boundary, boundary_features) ==
    /\ boundary_features # <<>>
    /\ \E f \in Range(boundary_features) :
          ~HasCol(SuffixCols(BoundaryFile(boundary), boundary), f)

\* A variant that reads the file of every boundary of the target
AlwaysFetch(bf, boundary, boundary_features) == TRUE

\* Whether the loop reads the boundary's file: its features differ from
\* self.bounds_features.get(boundary) (None when the key is absent)
NeedsFetch(bf, boundary, boundary_features) ==
    ~DictHas(bf, boundary) \/ boundary_features # DictGet(bf, boundary)

\* d[k] = v on a plain dict
Put(d, k, v) == [x \in DOMAIN d \cup {k} |-> IF x = k THEN v ELSE d[x]]

\* del d[k]
Del(d, k) == [x \in DOMAIN d \ {k} |-> d[x]]

\* The loop over bounds_features_to_load.items(): each fetched table is stored
\* as soon as it is read; a failing read ends the loop with what was stored so far.
\* unreadable is the set of boundaries whose file cannot be read during this call.
RECURSIVE LoadEach(_, _, _, _, _)
LoadEach(items, bf, bd, unreadable, fetched) ==
    IF items = <<>>
    THEN [ok |-> TRUE, error |-> "none", bd |-> bd, fetched |-> fetched]
    ELSE LET boundary == Head(items)[1]
             boundary_features == Head(items)[2]
         IN  IF NeedsFetch(bf, boundary, boundary_features)
             THEN IF boundary \in unreadable
                  THEN [ok |-> FALSE, error |-> "IOError", bd |-> bd,
                        fetched |-> Append(fetched, boundary)]
                  ELSE IF FetchKeyError(boundary, boundary_features)
                  THEN [ok |-> FALSE, error |-> "KeyError", bd |-> bd,
                        fetched |-> Append(fetched, boundary)]
                  ELSE LoadEach(Tail(items), bf,
                                Put(bd, boundary, FetchedTable(boundary, boundary_features)),
                                unreadable, Append(fetched, boundary))
             ELSE LoadEach(Tail(items), bf, bd, unreadable, fetched)

\* The boundaries of self.bounds_features that the target no longer names
RemoveBoundaries(bf, bounds_features_to_load) ==
    SelectSeq(DictKeys(bf), LAMBDA b : ~DictHas(bounds_features_to_load, b))

\* for rb in remove_boundaries: del self.boundary_data[rb] (KeyError ends the loop)
RECURSIVE DelEach(_, _)
DelEach(bd, rbs) ==
    IF rbs = <<>> \/ Head(rbs) \notin DOMAIN bd THEN bd
    ELSE DelEach(Del(bd, Head(rbs)), Tail(rbs))

\* The whole of _load_bounds_features on the store (bd, bf): the new store, whether
\* the call returned, and the boundaries whose file it read (or tried to read)
\* r is the outcome of the loop, rbs the boundaries to remove
AfterLoadEach(bf, bounds_features_to_load, r, rbs) ==
    IF ~r.ok
    THEN [ok |-> FALSE, error |-> r.error, boundary_data |-> r.bd,
          bounds_features |-> bf, fetched |-> r.fetched]
    ELSE IF \E rb \in Range(rbs) : rb \notin DOMAIN r.bd
    THEN [ok |-> FALSE, error |-> "KeyError", boundary_data |-> DelEach(r.bd, rbs),
          bounds_features |-> bf, fetched |-> r.fetched]
    ELSE [ok |-> TRUE, error |-> "none", boundary_data |-> DelEach(r.bd, rbs),
          bounds_features |-> bounds_features_to_load, fetched |-> r.fetched]

load_bounds_features(bd, bf, bounds_features_to_load, unreadable) ==
    AfterLoadEach(bf, bounds_features_to_load,
                  LoadEach(bounds_features_to_load, bf, bd, unreadable, <<>>),
                  RemoveBoundaries(bf, bounds_features_to_load))

(***************************************************************************)
(* _resolve_duplicates                                                     *)
(***************************************************************************)
ResolveDupsEnum ==
    {"smallest_area", "smallest_population", "largest_area", "largest_population"}

\* [b for b in KNOWN_BOUNDARIES if f"{b}_id" in df.columns]
IdCols(df) == SelectSeq(KNOWN_BOUNDARIES, LAMBDA b : HasCol(df, BndIdCol(b)))

RankCols(id_cols, method) ==
    [i \in 1..Len(id_cols) |->
        IF method \in {"largest_area", "smallest_area"}
        THEN Suffixed(id_cols[i], area_sqkm)
        ELSE Suffixed(id_cols[i], <<"population">>)]

DedupCols(df, method) == RankCols(IdCols(df), method)

\* A variant that sorts upwards under every method
AlwaysAscending(method) == TRUE

Ascending(method) == method \in {"smallest_area", "smallest_population"}

\* sort_values on several columns: whether key a sorts strictly before key b,
\* compared from column k on.  In each column NaN sorts last in either direction.
RECURSIVE KeyBefore(_, _, _, _)
KeyBefore(a, b, k, ascending) ==
    IF k > Len(a) THEN FALSE
    ELSE IF a[k] = b[k] THEN KeyBefore(a, b, k + 1, ascending)
    ELSE IF IsNaN(a[k]) THEN FALSE
    ELSE IF IsNaN(b[k]) THEN TRUE
    ELSE IF a[k][2] = b[k][2] THEN KeyBefore(a, b, k + 1, ascending)
    ELSE IF ascending THEN a[k][2] < b[k][2] ELSE a[k][2] > b[k][2]

\* The sort key of every row: its values in the columns at the positions pos
SortKeys(df, pos) ==
    [r \in 1..Len(df.rows) |-> [k \in 1..Len(pos) |-> df.rows[r][pos[k]]]]

\* A stable sort: row i goes before row j when its key sorts before, or when
\* neither key sorts before the other and i < j.  The place of every row:
SortPlaces(key, ascending) ==
    [i \in 1..Len(key) |->
        1 + Cardinality({j \in 1..Len(key) :
                \/ KeyBefore(key[j], key[i], 1, ascending)
                \/ (~KeyBefore(key[i], key[j], 1, ascending) /\ j < i)})]

SortOrder(place) ==
    [p \in 1..Len(place) |-> CHOOSE i \in 1..Len(place) : place[i] = p]

\* df.sort_values(by, ascending); the rows keep their index labels
sort_values(df, by, ascending) ==
    RowsAt(df, SortOrder(SortPlaces(
        SortKeys(df, [k \in 1..Len(by) |-> ColPos(df, by[k])]), ascending)))

FirstOfEach(vals) ==
    SelectSeq([r \in 1..Len(vals) |-> r],
              LAMBDA r : \A q \in 1..(r - 1) : vals[q] # vals[r])

\* df.drop_duplicates(c): the first row of each value of column c
drop_duplicates(df, c) == RowsAt(df, FirstOfEach(ColValues(df, c)))

\* after df.reset_index(inplace=True)
ResolveReset(df, idx_name, method) ==
    set_index(drop_duplicates(sort_values(df, DedupCols(df, method), Ascending(method)),
                              idx_name),
              idx_name)

resolve_duplicates(points_crosswalk, method) ==
    ResolveReset(reset_index(points_crosswalk), points_crosswalk.index_name, method)

\* sort_values raises KeyError when a ranking column is missing
ResolveKeyError(points_crosswalk, method) ==
    \E c \in Range(DedupCols(reset_index(points_crosswalk), method)) :
        ~HasCol(points_crosswalk, c)

(***************************************************************************)
(* _enrich_points                                                          *)
(***************************************************************************)
latitude == <<"latitude">>
longitude == <<"longitude">>
geometry == <<"geometry">>

\* quadkey.from_geo((lat, lon), level), at one level of tiling: the world is cut
\* in four tiles, numbered x + 2y with x growing eastwards and y southwards
from_geo(lat, lon) ==
    LET x == IF lon < 0 THEN 0 ELSE 1
        y == IF lat > 0 THEN 0 ELSE 1
    IN  S(Digits[x + 2 * y + 1])

\* points_["qk"]: from the geometry of a GeoDataFrame (a point <<"point", x, y>>),
\* from the two coordinate columns otherwise
QuadKeys(points_, latitude_col, longitude_col) ==
    [r \in 1..Len(points_.rows) |->
        IF points_.geo
        THEN LET p == Cell(points_, r, geometry) IN from_geo(p[3], p[2])
        ELSE from_geo(Cell(points_, r, latitude_col)[2],
                      Cell(points_, r, longitude_col)[2])]

drop_xtra_cols == << <<"id">>, <<"name">>, <<"geometry">> >>

\* The f"{col}_{bnd}" that are not selected features
XtraCols(cols, bnd, selected) ==
    SelectSeq([i \in 1..Len(cols) |-> Suffixed(cols[i], bnd)],
              LAMBDA c : ~InList(c, selected))

\* for col in drop_xtra_cols: drop f"{col}_{bnd}" unless it is a selected
\* feature; a column that is not there is passed over
DropXtra(df, cols, bnd, selected) == DropCols(df, XtraCols(cols, bnd, selected))

\* One turn of the loop, on the merged table: fanout records whether a merge so
\* far gave more rows than the table it was merged onto
RECURSIVE MergeEach(_, _, _, _)
Merged(df_joined, merged, items, bd, fanout) ==
    MergeEach(DropXtra(merged, drop_xtra_cols, Head(items)[1], Head(items)[2]),
              Tail(items), bd, fanout \/ NRows(merged) > NRows(df_joined))

\* for bnd in self.bounds_features: merge the boundary's table, drop its
\* descriptive columns.  A missing table or join column raises KeyError.
MergeEach(df_joined, items, bd, fanout) ==
    IF items = <<>> THEN [ok |-> TRUE, df |-> df_joined, fanout |-> fanout]
    ELSE LET bnd == Head(items)[1]
         IN  IF bnd \notin DOMAIN bd \/ ~HasCol(df_joined, BndIdCol(bnd))
                \/ ~HasCol(bd[bnd], IdCol(bnd))
             THEN [ok |-> FALSE, df |-> df_joined, fanout |-> fanout]
             ELSE Merged(df_joined,
                         merge(df_joined, bd[bnd], BndIdCol(bnd), IdCol(bnd)),
                         items, bd, fanout)

\* The outcome of a call that raised
Raised(error, joined_rows) ==
    [ok |-> FALSE, error |-> error, joined_rows |-> joined_rows, out |-> <<>>,
     fanout |-> FALSE]

\* points_ = points.copy(), with the index named when it has no name
NamedCopy(points, default) ==
    [points EXCEPT !.index_name = IF points.index_name = <<>> THEN default
                                  ELSE points.index_name]

\* A variant without the assertion of line 257
FinishPointsUnasserted(crosswalk, points, df_joined) ==
    [ok |-> TRUE, error |-> "none", joined_rows |-> <<NRows(df_joined)>>,
     out |-> <<FloatIntersects(DropCols(df_joined, crosswalk.columns))>>,
     fanout |-> FALSE]

\* From set_index on: the assertion, the crosswalk's columns dropped, the
\* "intersects" columns made float
FinishPoints(crosswalk, points, df_joined) ==
    IF NRows(df_joined) # NRows(points)
    THEN Raised("AssertionError", <<NRows(df_joined)>>)
    ELSE [ok |-> TRUE, error |-> "none", joined_rows |-> <<NRows(df_joined)>>,
          out |-> <<FloatIntersects(DropCols(df_joined, crosswalk.columns))>>,
          fanout |-> FALSE]

\* m is the outcome of the loop over the boundaries
AfterMerges(crosswalk, points, index_name, m) ==
    IF ~m.ok THEN Raised("KeyError", <<>>)
    ELSE [FinishPoints(crosswalk, points, set_index(m.df, index_name))
             EXCEPT !.fanout = m.fanout]

\* joined is points_crosswalk after the join, with the qk column dropped
AfterJoin(crosswalk, bd, bf, points, joined, resolve_dups) ==
    IF NRows(joined) # NRows(points)
    THEN IF ResolveKeyError(joined, resolve_dups) THEN Raised("KeyError", <<>>)
         ELSE AfterMerges(crosswalk, points, joined.index_name,
                  MergeEach(reset_index(resolve_duplicates(joined, resolve_dups)), bf, bd,
                            FALSE))
    ELSE AfterMerges(crosswalk, points, joined.index_name,
                     MergeEach(reset_index(joined), bf, bd, FALSE))

WithQuadKeys(points_, latitude_col, longitude_col) ==
    AddCol(points_, <<"qk">>, QuadKeys(points_, latitude_col, longitude_col))

\* On the crosswalk cw and the store (bd, bf).  joined_rows is the row count that
\* the assertion compares with the input's.
enrich_points(cw, bd, bf, points, latitude_col, longitude_col, resolve_dups) ==
    IF cw = <<>> THEN Raised("TypeError", <<>>)
    ELSE AfterJoin(cw[1], bd, bf, points,
            DropCol(join(WithQuadKeys(NamedCopy(points, <<"points", "_", "index">>),
                                      latitude_col, longitude_col),
                         cw[1], <<"qk">>),
                    <<"qk">>),
            resolve_dups)

(***************************************************************************)
(* _enrich_boundary                                                        *)
(***************************************************************************)
\* After the merge: the assertion, the descriptive columns dropped, the
\* "intersects" columns made float
FinishBoundary(base_data, boundary_name, selected, df_joined) ==
    IF NRows(df_joined) # NRows(base_data)
    THEN [Raised("AssertionError", <<NRows(df_joined)>>)
             EXCEPT !.fanout = NRows(df_joined) > NRows(base_data)]
    ELSE [ok |-> TRUE, error |-> "none", joined_rows |-> <<NRows(df_joined)>>,
          out |-> <<FloatIntersects(DropXtra(df_joined, drop_xtra_cols,
                                             boundary_name, selected))>>,
          fanout |-> FALSE]

\* l is the outcome of the load (of nothing, when the boundary is resident);
\* converted is the caller's table after astype(str)
AfterAutoLoad(converted, boundary_name, boundary_col, l) ==
    [boundary_data |-> l.boundary_data, bounds_features |-> l.bounds_features,
     fetched |-> l.fetched, points_after |-> converted]
    @@
    (IF ~l.ok THEN Raised(l.error, <<>>)
     ELSE IF boundary_name \notin DOMAIN l.boundary_data
             \/ ~HasCol(l.boundary_data[boundary_name], IdCol(boundary_name))
     THEN Raised("KeyError", <<>>)
     ELSE FinishBoundary(converted, boundary_name,
                         DictGet(l.bounds_features, boundary_name),
                         merge(NamedCopy(converted, <<"base", "_", "index">>),
                               l.boundary_data[boundary_name],
                               boundary_col, IdCol(boundary_name))))

\* On the store (bd, bf).  The call converts the identifier column of the caller's
\* table in place, and loads the boundary when bounds_features does not have it;
\* points_after is the caller's table after the call, and boundary_data /
\* bounds_features the store after it.
enrich_boundary(bd, bf, base_data, boundary_name, boundary_col, unreadable) ==
    AfterAutoLoad(AsStr(base_data, boundary_col), boundary_name, boundary_col,
        IF ~DictHas(bf, boundary_name)
        THEN load_bounds_features(bd, bf, DictSet(bf, boundary_name, <<>>), unreadable)
        ELSE [ok |-> TRUE, error |-> "none", boundary_data |-> bd,
              bounds_features |-> bf, fetched |-> <<>>])

(***************************************************************************)
(* The record of a call                                                    *)
(***************************************************************************)
NoCall ==
    [op |-> "none", ok |-> TRUE, error |-> "none",
     boundaries |-> <<>>, features |-> <<>>, target |-> <<>>,
     fetched |-> <<>>, crosswalk_reads |-> 0,
     boundary_name |-> <<>>, boundary_col |-> <<>>, resolve_dups |-> "none",
     points |-> <<>>, points_after |-> <<>>, joined_rows |-> <<>>, out |-> <<>>,
     fanout |-> FALSE, repeat |-> FALSE]

\* Whether the call before this one, when the caller has made no other call in
\* between, was a load with the same arguments
SameAsLast(boundaries, features) ==
    /\ call.op = "load"
    /\ call.boundaries = boundaries
    /\ call.features = features

\* ... and returned
Repeats(boundaries, features) == SameAsLast(boundaries, features) /\ call.ok

(***************************************************************************)
(* load                                                                    *)
(***************************************************************************)
population_cbg == Suffixed(<<"population">>, cbg)

\* Arguments of load
BoundaryArgs ==
    {<<>>, <<county>>, <<county, zipcode>>, <<zipcode>>, <<cbg, zipcode>>, <<parcel>>}

FeatureArgs ==
    {<<>>, <<population_cbg>>, <<IdCol(cbg), population_cbg>>, <<population_cbg, IdCol(cbg)>>}

\* The sets of boundary files that a call may find unreadable
UnreadableSets == {{}, {zipcode}}

\* pd.read_parquet(self.crosswalk_loc) followed by set_index("id")
CrosswalkTable == set_index(CrosswalkFile, <<"id">>)

\* A variant that reads the crosswalk in every load
AlwaysAbsent(cw) == TRUE

\* if self.crosswalk_data is None
CrosswalkAbsent(cw) == cw = <<>>

load(boundaries, features, crosswalk_unreadable, unreadable) ==
    IF CrosswalkAbsent(crosswalk_data) /\ crosswalk_unreadable
    THEN /\ UNCHANGED <<crosswalk_data, boundary_data, bounds_features>>
         /\ call' = [NoCall EXCEPT !.op = "load", !.ok = FALSE, !.error = "IOError",
                                   !.boundaries = boundaries, !.features = features,
                                   !.crosswalk_reads = 1,
                                   !.repeat = Repeats(boundaries, features)]
    ELSE \E bounds_features_to_load \in {infer_bounds(boundaries, features)} :
         \E r \in {load_bounds_features(boundary_data, bounds_features,
                                       bounds_features_to_load, unreadable)} :
             /\ crosswalk_data' = IF CrosswalkAbsent(crosswalk_data)
                                  THEN <<CrosswalkTable>>
                                  ELSE crosswalk_data
             /\ boundary_data' = r.boundary_data
             /\ bounds_features' = r.bounds_features
             /\ call' = [NoCall EXCEPT !.op = "load", !.ok = r.ok, !.error = r.error,
                                       !.boundaries = boundaries, !.features = features,
                                       !.target = bounds_features_to_load,
                                       !.fetched = r.fetched,
                                       !.crosswalk_reads =
                                           IF CrosswalkAbsent(crosswalk_data)
                                           THEN 1 ELSE 0,
                                       !.repeat = Repeats(boundaries, features)]

\* A load, or the same load again straight after a load
Load ==
    \E boundaries \in BoundaryArgs, features \in FeatureArgs,
       crosswalk_unreadable \in BOOLEAN, unreadable \in UnreadableSets :
       /\ call.op = "none" \/ SameAsLast(boundaries, features)
       /\ load(boundaries, features, crosswalk_unreadable, unreadable)

(***************************************************************************)
(* enrich                                                                  *)
(***************************************************************************)
NoArgs ==
    [latitude_col |-> <<>>, longitude_col |-> <<>>, census_block_group_col |-> <<>>,
     census_tract_col |-> <<>>, zipcode_col |-> <<>>, county_col |-> <<>>,
     metro_col |-> <<>>, resolve_dups |-> "largest_area"]

\* The dispatch of enrich: <<boundary, column>> for the first identifier column
\* given, <<>> for the coordinate path
BoundaryPath(a) ==
    IF a.census_block_group_col # <<>> THEN <<cbg, a.census_block_group_col>>
    ELSE IF a.census_tract_col # <<>> THEN <<census_tract, a.census_tract_col>>
    ELSE IF a.zipcode_col # <<>> THEN <<zipcode, a.zipcode_col>>
    ELSE IF a.county_col # <<>> THEN <<county, a.county_col>>
    ELSE IF a.metro_col # <<>> THEN <<metro, a.metro_col>>
    ELSE <<>>

\* The index of a caller's table of n rows: a default RangeIndex, a named index
\* with the labels 7, 5, ..., or a named index with the same label on every row
IndexChoices(n) ==
    { [name |-> <<>>, labels |-> RangeIndex(n)],
      [name |-> <<"point", "_", "id">>, labels |-> [i \in 1..n |-> I(9 - 2 * i)]],
      [name |-> <<"point", "_", "id">>, labels |-> [i \in 1..n |-> I(3)]] }

\* The index of the GeoDataFrame that IggyEnrich.enrich_points builds
PointIdIndex(n) == [name |-> <<"point", "_", "id">>, labels |-> RangeIndex(n)]

TileLat(t) == IF t \in {0, 1} THEN 45 ELSE 0 - 45
TileLon(t) == IF t \in {0, 2} THEN 0 - 90 ELSE 90

\* A caller's table of points, one per tile number of tiles
PointsTable(geo, idx, tiles) ==
    IF geo
    THEN GeoDataFrame(idx.name, idx.labels, <<geometry>>,
            [r \in 1..Len(tiles) |-> << <<"point", TileLon(tiles[r]), TileLat(tiles[r])>> >>])
    ELSE DataFrame(idx.name, idx.labels, <<latitude, longitude>>,
            [r \in 1..Len(tiles) |-> <<F(TileLat(tiles[r])), F(TileLon(tiles[r]))>>])

\* A caller's table with one identifier column, of integers or of strings
BaseTable(col, idx, as_int, ids) ==
    DataFrame(idx.name, idx.labels, <<col>>,
        [r \in 1..Len(ids) |-> <<IF as_int THEN I(ids[r]) ELSE S(Digits[ids[r] + 1])>>])

\* Identifiers of the callers' tables: 1 and 2 are regions of the files, 9 is not
Identifiers == {1, 2, 9}

\* The resolve_dups arguments the callers pass: the default and its opposite
ResolveDupsArgs == {"largest_area", "smallest_population"}

EnrichPoints ==
    /\ call.op = "none"
    /\ \E n \in 1..MaxPoints, geo \in BOOLEAN, resolve_dups \in ResolveDupsArgs :
       \E idx \in IF geo THEN {PointIdIndex(n)} ELSE IndexChoices(n),
          tiles \in [1..n -> 0..3] :
       \E points \in {PointsTable(geo, idx, tiles)} :
       \E a \in {[NoArgs EXCEPT !.latitude_col = latitude, !.longitude_col = longitude,
                                !.resolve_dups = resolve_dups]} :
          /\ BoundaryPath(a) = <<>>
          /\ points.geo \/ (a.latitude_col # <<>> /\ a.longitude_col # <<>>)
          /\ \E r \in {enrich_points(crosswalk_data, boundary_data, bounds_features,
                                     points, a.latitude_col, a.longitude_col,
                                     a.resolve_dups)} :
                call' = [NoCall EXCEPT !.op = "enrich_points", !.ok = r.ok,
                                       !.error = r.error, !.resolve_dups = a.resolve_dups,
                                       !.points = <<points>>, !.points_after = <<points>>,
                                       !.joined_rows = r.joined_rows, !.out = r.out,
                                    !.fanout = r.fanout]
    /\ UNCHANGED <<crosswalk_data, boundary_data, bounds_features>>

\* The identifier-column arguments the model passes
BoundaryColArgs ==
    { [NoArgs EXCEPT !.census_block_group_col = cbg],
      [NoArgs EXCEPT !.zipcode_col = zipcode],
      [NoArgs EXCEPT !.county_col = county] }

\* What the call may find unreadable: it reads no file when the boundary is a
\* key of bounds_features
Unreadable(boundary_name) ==
    IF DictHas(bounds_features, boundary_name) THEN {{}} ELSE UnreadableSets

EnrichBoundary ==
    /\ call.op = "none"
    /\ \E n \in 1..MaxPoints, as_int \in BOOLEAN, a \in BoundaryColArgs :
       \E idx \in IndexChoices(n), ids \in [1..n -> Identifiers] :
       \E path \in {BoundaryPath(a)} :
       \E unreadable \in Unreadable(path[1]) :
       \E base_data \in {BaseTable(path[2], idx, as_int, ids)} :
       \E r \in {enrich_boundary(boundary_data, bounds_features, base_data,
                                   path[1], path[2], unreadable)} :
          /\ boundary_data' = r.boundary_data
          /\ bounds_features' = r.bounds_features
          /\ call' = [NoCall EXCEPT !.op = "enrich_boundary", !.ok = r.ok,
                                    !.error = r.error, !.fetched = r.fetched,
                                    !.boundary_name = path[1], !.boundary_col = path[2],
                                    !.points = <<base_data>>,
                                    !.points_after = <<r.points_after>>,
                                    !.joined_rows = r.joined_rows, !.out = r.out,
                                    !.fanout = r.fanout]
    /\ UNCHANGED crosswalk_data

\* The record of the last call is dropped.  An enrich call starts from a dropped
\* record: what a call leaves to the calls after it is the store alone.
Return ==
    /\ call.op # "none"
    /\ call' = NoCall
    /\ UNCHANGED <<crosswalk_data, boundary_data, bounds_features>>

(***************************************************************************)
(* The package                                                             *)
(***************************************************************************)
Init ==
    /\ crosswalk_data = <<>>
    /\ boundary_data = <<>>
    /\ bounds_features = <<>>
    /\ call = NoCall

Next ==
    \/ Load
    \/ EnrichPoints
    \/ EnrichBoundary
    \/ Return

Spec == Init /\ [][Next]_vars

(***************************************************************************)
(* infer_bounds on its own: the arguments are drawn at the start and the    *)
(* one step applies the function to them                                    *)
(***************************************************************************)
\* Boundary names a caller may write: known ones and unknown ones
NameArgs == {county, cbg, parcel, <<"lot">>}

MaxBoundaries == 2

BoundaryLists ==
    UNION {[1..n -> NameArgs] : n \in 0..MaxBoundaries}

FeatureLists ==
    {<<>>, <<population_cbg>>, <<population_cbg, Suffixed(<<"name">>, county)>>,
     <<Suffixed(<<"area">>, parcel)>>}

InferInit ==
    /\ crosswalk_data = <<>>
    /\ boundary_data = <<>>
    /\ bounds_features = <<>>
    /\ \E boundaries \in BoundaryLists, features \in FeatureLists :
          call = [NoCall EXCEPT !.op = "arguments", !.boundaries = boundaries,
                                !.features = features]

InferBounds ==
    /\ call.op = "arguments"
    /\ call' = [call EXCEPT !.op = "infer_bounds",
                            !.target = infer_bounds(call.boundaries, call.features)]
    /\ UNCHANGED <<crosswalk_data, boundary_data, bounds_features>>

InferNext == InferBounds

SpecInfer == InferInit /\ [][InferNext]_vars

(***************************************************************************)
(* _resolve_duplicates on its own: a joined table and a method are drawn at *)
(* the start and the one step applies the function to them                  *)
(***************************************************************************)
MaxJoined == 3

\* The crosswalk columns of a joined table: those of the cbg then those of the
\* county, the other way round, or those of the county alone
Layouts == {<<cbg, county>>, <<county, cbg>>, <<county>>}

JoinedColumns(layout) ==
    [k \in 1..(3 * Len(layout)) |->
        LET b == layout[((k - 1) \div 3) + 1]
        IN  CASE (k - 1) % 3 = 0 -> BndIdCol(b)
              [] (k - 1) % 3 = 1 -> Suffixed(b, area_sqkm)
              [] OTHER           -> Suffixed(b, <<"population">>)]

\* A crosswalk match: the cbg and the county of a region, each with an
\* identifier, an area and a population
Matches ==
    { [cbg |-> <<S("1"), I(10), I(10)>>, county |-> <<S("2"), I(9), I(90)>>],
      [cbg |-> <<S("2"), I(5), I(20)>>,  county |-> <<S("2"), I(9), I(90)>>],
      [cbg |-> <<S("2"), I(5), I(20)>>,  county |-> <<S("1"), I(7), I(95)>>],
      [cbg |-> <<S("3"), I(10), I(5)>>,  county |-> <<S("3"), I(3), I(70)>>] }

JoinedRow(layout, m) ==
    [k \in 1..(3 * Len(layout)) |->
        (IF layout[((k - 1) \div 3) + 1] = cbg THEN m.cbg ELSE m.county)[((k - 1) % 3) + 1]]

\* points_crosswalk: the rows of the join, each under the label of its point
JoinedTable(layout, labels, matches) ==
    DataFrame(<<"points", "_", "index">>, [r \in 1..Len(labels) |-> I(labels[r])],
              JoinedColumns(layout),
              [r \in 1..Len(labels) |-> JoinedRow(layout, matches[r])])

ResolveInit ==
    /\ crosswalk_data = <<>>
    /\ boundary_data = <<>>
    /\ bounds_features = <<>>
    /\ \E n \in 2..MaxJoined, layout \in Layouts, method \in ResolveDupsEnum :
       \E labels \in [1..n -> 0..1], matches \in [1..n -> Matches] :
          call = [NoCall EXCEPT !.op = "arguments", !.resolve_dups = method,
                                !.points = <<JoinedTable(layout, labels, matches)>>]

ResolveDuplicates ==
    /\ call.op = "arguments"
    /\ call' = [call EXCEPT !.op = "resolve_duplicates",
                            !.out = <<resolve_duplicates(call.points[1],
                                                         call.resolve_dups)>>]
    /\ UNCHANGED <<crosswalk_data, boundary_data, bounds_features>>

ResolveNext == ResolveDuplicates

SpecResolve == ResolveInit /\ [][ResolveNext]_vars

(***************************************************************************)
(* Properties                                                              *)
(***************************************************************************)
IsEnrich == call.op \in {"enrich_points", "enrich_boundary"}

Distinct(seq) == \A i, j \in 1..Len(seq) : seq[i] = seq[j] => i = j

RowCountKept ==
    /\ call.ok => NRows(call.out[1]) = NRows(call.points[1])
    /\ (call.joined_rows # <<>> /\ call.joined_rows[1] # NRows(call.points[1]))
          => (~call.ok /\ call.error = "AssertionError")

\* C1, as amended: an enrich call that returns a table returns one with as many
\* rows as the input has; a call whose joined table reaches the assertion with
\* another row count ends in an assertion failure; and when the labels of the
\* input's index are distinct, every call in which a boundary table's duplicate
\* ids fanned a merge out ends in an assertion failure.
C1_RowCount ==
    IsEnrich =>
        /\ RowCountKept
        /\ (call.fanout /\ Distinct(call.points[1].index))
              => (~call.ok /\ call.error = "AssertionError")

\* C1 as stated: an enrich call that returns a table returns one with as many
\* rows as the input has, and every call in which a join fanned out ends in an
\* assertion failure.
C1_AsStated ==
    IsEnrich =>
        /\ RowCountKept
        /\ call.fanout => (~call.ok /\ call.error = "AssertionError")

\* A coordinate enrich of points with distinct labels in which the merge of the
\* county table fanned out, and which the assertion ended
C1_Witness ==
    /\ call.op = "enrich_points"
    /\ call.fanout
    /\ Distinct(call.points[1].index)
    /\ NRows(call.points[1]) = 2
    /\ call.joined_rows = <<3>>
    /\ call.error = "AssertionError"

\* C2 as stated: a coordinate enrich that returns gives the output the index
\* labels of the input, in the input's order.
C2_AsStated ==
    (call.op = "enrich_points" /\ call.ok)
        => call.out[1].index = call.points[1].index

\* A row of the caller's table whose identifier is not in the boundary table is
\* in the output once, in its place, with every added column null
AbsentRowsNull ==
    LET base == call.points_after[1]
        out == call.out[1]
        ids == ColValues(boundary_data[call.boundary_name], IdCol(call.boundary_name))
    IN  /\ NRows(out) = NRows(base)
        /\ \A r \in 1..NRows(base) :
              ~InList(base.rows[r][1], ids)
                  => /\ out.rows[r][1] = base.rows[r][1]
                     /\ \A k \in (Len(base.columns) + 1)..Len(out.columns) :
                            IsNaN(out.rows[r][k])

\* C3 as stated: an identifier enrich that returns gives the output the index
\* labels of the input, in the input's order, and a row whose identifier is
\* not in the boundary table appears once, its feature columns null.
C3_AsStated ==
    (call.op = "enrich_boundary" /\ call.ok)
        => /\ call.out[1].index = call.points[1].index
           /\ AbsentRowsNull

\* The load that has just been made failed in the loader of a boundary type
\* (the crosswalk was there or was read: the target was computed)
LoaderFailed ==
    /\ call'.op = "load"
    /\ ~call'.ok
    /\ call'.target # <<>>
    /\ call'.error = "IOError"

\* C4 as stated: a load that fails in the loader of some boundary type of the
\* target leaves boundary_data and bounds_features as they were before the call.
C4_AsStated ==
    [][LoaderFailed => UNCHANGED <<boundary_data, bounds_features>>]_vars

\* C5 as stated: after a load that returns, the boundary types that have a
\* table in boundary_data are exactly the keys of the target of infer_bounds.
C5_AsStated ==
    (call.op = "load" /\ call.ok)
        => DOMAIN boundary_data = Range(DictKeys(call.target))

SameArguments ==
    /\ call.op = "load"
    /\ call'.op = "load"
    /\ call'.boundaries = call.boundaries
    /\ call'.features = call.features

NothingLoaded ==
    /\ call'.fetched = <<>>
    /\ call'.crosswalk_reads = 0
    /\ UNCHANGED <<crosswalk_data, boundary_data, bounds_features>>

\* C6, as amended: when a load has returned and the next call is a load with the
\* same boundaries and features, the second call reads no boundary file and no
\* crosswalk, and leaves crosswalk_data, boundary_data and bounds_features as
\* they were.
C6_Idempotent ==
    [][(SameArguments /\ call.ok) => NothingLoaded]_vars

\* C6 as stated: when the call after a load is a load with the same boundaries
\* and features, the second call reads no boundary file and no crosswalk, and
\* leaves the store as it was, whether or not the first call returned.
C6_AsStated ==
    [][SameArguments => NothingLoaded]_vars

\* The second of two loads of county and zipcode in a row has returned, having
\* read nothing
C6_Witness ==
    /\ call.op = "load"
    /\ call.repeat
    /\ call.ok
    /\ call.boundaries = <<county, zipcode>>
    /\ call.fetched = <<>>
    /\ call.crosswalk_reads = 0
    /\ DOMAIN boundary_data = {county, zipcode}

\* C7 as stated: with a non-empty list of boundaries and no features, every
\* key of the result of infer_bounds is in the list and in KNOWN_BOUNDARIES.
C7_AsStated ==
    (call.op = "infer_bounds" /\ call.boundaries # <<>> /\ call.features = <<>>)
        => \A b \in Range(DictKeys(call.target)) :
               InList(b, call.boundaries) /\ InList(b, KNOWN_BOUNDARIES)

\* The selected features without the identifier, then the identifier
SelectedColumns(boundary, selected) ==
    SelectSeq(selected, LAMBDA f : f # IdCol(boundary)) \o <<IdCol(boundary)>>

\* C8 as stated: after a load that returns, the table of every boundary type of
\* the target with a non-empty feature selection has exactly the selected
\* columns other than the identifier, followed by the identifier.
C8_AsStated ==
    (call.op = "load" /\ call.ok)
        => \A i \in 1..Len(call.target) :
               LET boundary == call.target[i][1]
                   selected == call.target[i][2]
               IN  selected # <<>>
                     => /\ boundary \in DOMAIN boundary_data
                        /\ boundary_data[boundary].columns = SelectedColumns(boundary, selected)

\* The identifier enrich that has just been made, of a boundary type that had no
\* table: its file is read whole, its table added under the empty selection, and
\* the other types keep their table and their selection
AutoLoaded ==
    LET b == call'.boundary_name
    IN  /\ call'.fetched = <<b>>
        /\ call'.ok => /\ boundary_data' = Put(boundary_data, b, FetchedTable(b, <<>>))
                        /\ bounds_features' = DictSet(bounds_features, b, <<>>)

\* The identifier enrich that has just been made, of a boundary type that had a
\* table: no file is read, the store is as it was, and the columns of the output
\* are those of the input and the features selected for the type
ResidentUsed ==
    LET b == call'.boundary_name
    IN  /\ call'.fetched = <<>>
        /\ UNCHANGED <<boundary_data, bounds_features>>
        /\ (call'.ok /\ DictHas(bounds_features, b) /\ DictGet(bounds_features, b) # <<>>)
              => \A c \in Range(call'.out[1].columns) :
                     \/ InList(c, call'.points[1].columns)
                     \/ InList(c, DictGet(bounds_features, b))

\* C9 as stated: an identifier enrich of a boundary type without a table loads
\* it with the empty selection and leaves the other types alone; of a type with
\* a table it reads nothing, leaves the store alone and gives only the selected
\* features.
C9_AsStated ==
    [][call'.op = "enrich_boundary"
          => IF call'.boundary_name \in DOMAIN boundary_data
             THEN ResidentUsed ELSE AutoLoaded]_vars

\* The ranking tuple of row r of the joined table: the area or the population of
\* each boundary type that has columns in the table, in the order of
\* KNOWN_BOUNDARIES
RankTuple(df, r, method) ==
    LET present == SelectSeq(KNOWN_BOUNDARIES, LAMBDA b : HasCol(df, BndIdCol(b)))
        quantity == IF method \in {"largest_area", "smallest_area"}
                    THEN area_sqkm ELSE <<"population">>
    IN  [i \in 1..Len(present) |-> Cell(df, r, Suffixed(present[i], quantity))[2]]

\* a comes before b in the lexicographic order of tuples of numbers
LexLess(a, b) ==
    \E k \in 1..Len(a) : a[k] < b[k] /\ \A j \in 1..(k - 1) : a[j] = b[j]

Largest(method) == method \in {"largest_area", "largest_population"}

\* The rows of the joined table under the label
Candidates(df, label) == {r \in 1..NRows(df) : df.index[r] = label}

\* C10: for every label of the joined table, the output of _resolve_duplicates
\* has one row under the label; it is a row the table has under the label, and
\* no row under the label has a ranking tuple that is lexicographically greater
\* (largest_* methods) or less (smallest_* methods) than its tuple.
C10_KeepsExtreme ==
    call.op = "resolve_duplicates" =>
        LET df == call.points[1]
            out == call.out[1]
            method == call.resolve_dups
        IN  /\ Range(out.index) = Range(df.index)
            /\ Distinct(out.index)
            /\ out.columns = df.columns
            /\ \A p \in 1..NRows(out) :
                  \E r \in Candidates(df, out.index[p]) :
                      /\ out.rows[p] = df.rows[r]
                      /\ \A q \in Candidates(df, out.index[p]) :
                            IF Largest(method)
                            THEN ~LexLess(RankTuple(df, r, method), RankTuple(df, q, method))
                            ELSE ~LexLess(RankTuple(df, q, method), RankTuple(df, r, method))

\* Two candidates of one point, of cbg areas 5 and 10, resolved by largest_area:
\* the one of 10 is kept
C10_Witness ==
    /\ call.op = "resolve_duplicates"
    /\ call.resolve_dups = "largest_area"
    /\ LET df == call.points[1]
           out == call.out[1]
       IN  /\ NRows(df) = 2
           /\ df.index = <<I(0), I(0)>>
           /\ HasCol(df, Suffixed(cbg, area_sqkm))
           /\ Cell(df, 1, Suffixed(cbg, area_sqkm)) = I(5)
           /\ Cell(df, 2, Suffixed(cbg, area_sqkm)) = I(10)
           /\ NRows(out) = 1
           /\ out.rows[1] = df.rows[2]

\* Whether, before the step, the boundary type has a table that was stored under
\* the same set of feature names as features
ResidentWith(boundary, features) ==
    /\ boundary \in DOMAIN boundary_data
    /\ DictHas(bounds_features, boundary)
    /\ Range(DictGet(bounds_features, boundary)) = Range(features)

\* C11 as stated: a load does not read the file of a boundary type of its target
\* that is resident with the same set of feature names, in whatever order they
\* were listed, and leaves that type's table as it was; it reads the file of a
\* target type only when the type is not resident or its feature set differs.
C11_AsStated ==
    [][call'.op = "load"
          => \A i \in 1..Len(call'.target) :
                ResidentWith(call'.target[i][1], call'.target[i][2])
                   => /\ ~InList(call'.target[i][1], call'.fetched)
                      /\ call'.target[i][1] \in DOMAIN boundary_data'
                      /\ boundary_data'[call'.target[i][1]]
                            = boundary_data[call'.target[i][1]]]_vars

\* The step is a call that read, or tried to read, the crosswalk's file
ReadsCrosswalk == call'.op # "none" /\ call'.crosswalk_reads = 1

\* C12: the crosswalk is read at most once.  A step reads the crosswalk's file
\* only when it is a load that finds crosswalk_data None, and such a load does
\* read it; the read sets crosswalk_data to the file's table, or raises and
\* leaves the package as it was; and once
\* crosswalk_data is set, no load and no enrich reads the file, replaces
\* crosswalk_data or changes it.
C12_ReadOnce ==
    [][/\ ReadsCrosswalk <=> (call'.op = "load" /\ crosswalk_data = <<>>)
       /\ ReadsCrosswalk
             => \/ crosswalk_data' = <<CrosswalkTable>>
                \/ /\ ~call'.ok /\ call'.fetched = <<>>
                   /\ UNCHANGED <<crosswalk_data, boundary_data, bounds_features>>
       /\ crosswalk_data # <<>> => crosswalk_data' = crosswalk_data
       /\ call'.op \in {"enrich_points", "enrich_boundary"}
             => crosswalk_data' = crosswalk_data]_vars

\* A load that found the crosswalk in memory, read no file for it and went on to
\* read a boundary file
C12_Witness ==
    /\ call.op = "load"
    /\ crosswalk_data = <<CrosswalkTable>>
    /\ call.crosswalk_reads = 0
    /\ call.fetched # <<>>

\* C13 as stated: after an enrich call on either path, the caller's table has the
\* columns, the values (those of the identifier column and their type included)
\* and the index name it had before the call.
C13_AsStated ==
    IsEnrich => call.points_after = call.points

====
